---- MODULE Spec2Model ----
(***************************************************************************)
(* A model of src/mlp.py: class MLP, a one-hidden-layer perceptron with    *)
(* momentum gradient descent (train), a validation-driven supervisory     *)
(* loop (early_stopping) and single-sample inference (use).               *)
(*                                                                         *)
(* Numbers.  The program computes in IEEE doubles; the model computes in   *)
(* fixed point: a real r is the integer floor(r * Scale).  Products and    *)
(* quotients round towards minus infinity.  exp() and the logistic are     *)
(* piecewise linear through their true values at the integers.             *)
(* A validation error 0.5 * sum(d^2) is held exactly, in units of          *)
(* 1 / ErrDen with ErrDen = 2 * Scale^2.                                   *)
(*                                                                         *)
(* Control.  pc is the position of the single thread of control; the       *)
(* attributes of the MLP object and the locals of the running methods are  *)
(* the other variables.  A matrix that does not exist yet is the empty     *)
(* tuple; eta is 0 and outtype is "unset" until train assigns them.        *)
(***************************************************************************)
EXTENDS Integers, Sequences, FiniteSets, TLC

(* ------------------------------ bounds -------------------------------- *)

\* fixed-point resolution: 1.0 is Scale
Scale == 100
\* calls of train and early_stopping made on one MLP object
MaxCalls == 1
\* rounds of the early-stopping loop the model follows
MaxRounds == 9
\* SpecES: validation errors drawn without constraint before the sequence
\* settles (every later error is within the threshold of its predecessor)
MaxFree == 2

(* ------------------------- program constants -------------------------- *)

\* beta = 1 (default argument of the constructor)
Beta == 1
\* momentum = 0.9 (default argument of the constructor)
momentum == (9 * Scale) \div 10

\* the three recognised output activations, and one that is not
KnownOuttypes == {"linear", "logistic", "softmax"}
Outtypes == KnownOuttypes \cup {"tanh"}

(* --------------------------- fixed point ------------------------------ *)

Tenths(k) == (k * Scale) \div 10

FMul(a, b) == (a * b) \div Scale

Max(a, b) == IF a >= b THEN a ELSE b

RECURSIVE SumSeq(_)
SumSeq(s) == IF s = <<>> THEN 0 ELSE s[1] + SumSeq(Tail(s))

\* true values of exp at -4..4, in thousandths
ExpKnot(k) ==
    CASE k = -4 -> 18    [] k = -3 -> 50    [] k = -2 -> 135
      [] k = -1 -> 368   [] k = 0 -> 1000   [] k = 1 -> 2718
      [] k = 2 -> 7389   [] k = 3 -> 20086  [] OTHER -> 54598

ExpAt(k) == Max(1, (ExpKnot(k) * Scale) \div 1000)

\* ny.exp(z): linear between the knots, clamped outside [-4, 4]
Exp(z) ==
    LET q == z \div Scale
        r == z % Scale
    IN  IF q < -4 THEN ExpAt(-4)
        ELSE IF q >= 4 THEN ExpAt(4)
        ELSE ExpAt(q) + ((ExpAt(q + 1) - ExpAt(q)) * r) \div Scale

\* true values of 1 / (1 + exp(-k)) at 0..6, in thousandths
SigKnot(k) ==
    CASE k = 0 -> 500 [] k = 1 -> 731 [] k = 2 -> 881 [] k = 3 -> 953
      [] k = 4 -> 982 [] k = 5 -> 993 [] OTHER -> 998

SigAt(k) == (SigKnot(k) * Scale) \div 1000

SigPos(z) ==
    LET q == z \div Scale
        r == z % Scale
    IN  IF q >= 6 THEN SigAt(6)
        ELSE SigAt(q) + ((SigAt(q + 1) - SigAt(q)) * r) \div Scale

\* 1.0 / ( 1.0 + ny.exp( -self.beta * x ) )
Logistic(x) ==
    LET z == Beta * x
    IN  IF z >= 0 THEN SigPos(z) ELSE Scale - SigPos(-z)

(* ----------------------------- matrices ------------------------------- *)
\* a matrix is a sequence of rows, a row a sequence of fixed-point numbers

NRows(A) == Len(A)
NCols(A) == Len(A[1])

Zeros(r, c) == [i \in 1..r |-> [j \in 1..c |-> 0]]

Transpose(A) == [j \in 1..NCols(A) |-> [i \in 1..NRows(A) |-> A[i][j]]]

\* ny.dot is defined when the inner dimensions agree
DotDefined(A, B) == NCols(A) = NRows(B)

Dot(A, B) ==
    [i \in 1..NRows(A) |->
        [j \in 1..NCols(B) |->
            SumSeq([k \in 1..NRows(B) |-> A[i][k] * B[k][j]]) \div Scale]]

MapM(Op(_), A) == [i \in 1..NRows(A) |-> [j \in 1..NCols(A) |-> Op(A[i][j])]]

Map2(Op(_, _), A, B) ==
    [i \in 1..NRows(A) |-> [j \in 1..NCols(A) |-> Op(A[i][j], B[i][j])]]

Plus(a, b) == a + b
Minus(a, b) == a - b

\* concatenate( ( A, -ones ), axis = 1 ): the bias node, fixed at -1
AddBias(A) == [i \in 1..NRows(A) |-> Append(A[i], -Scale)]

\* A[:, :-1]
DropLastCol(A) == [i \in 1..NRows(A) |-> SubSeq(A[i], 1, NCols(A) - 1)]

\* A[shuffle, :]
TakeRows(A, idx) == [i \in 1..Len(idx) |-> A[idx[i]]]

(* ------------------------ the network, as values ---------------------- *)

\* _forward, lines 121-123: the hidden activations, with the bias node
HiddenOf(inp, w1) == AddBias(MapM(Logistic, Dot(inp, w1)))

\* _forward, lines 133-134: each row divided by the sum of its exponentials
Softmax(pre) ==
    LET ex == MapM(Exp, pre)
    IN  [i \in 1..NRows(ex) |->
            [j \in 1..NCols(ex) |-> (ex[i][j] * Scale) \div SumSeq(ex[i])]]

\* _forward, lines 128-134: the output activation of a recognised outtype
OutputActivation(ot, pre) ==
    CASE ot = "linear" -> pre
      [] ot = "logistic" -> MapM(Logistic, pre)
      [] ot = "softmax" -> Softmax(pre)

\* the else branch only prints: an unknown outtype is treated as linear
forward_defaulting(inp, w1, w2, ot, h0) ==
    IF ~DotDefined(inp, w1)
    THEN [raised |-> "ValueError", hidden |-> h0, outputs |-> <<>>]
    ELSE LET h == HiddenOf(inp, w1)
         IN  [raised |-> "none", hidden |-> h,
              outputs |-> IF ot \in KnownOuttypes
                          THEN OutputActivation(ot, Dot(h, w2))
                          ELSE Dot(h, w2)]

\* _forward( inp ) with layer-1 weights w1, layer-2 weights w2 and
\* self.outtype = ot, where the recorded hidden activations are h0.
\* ny.dot raises ValueError on a width mismatch, before self.hidden is
\* assigned.  The else branch reads the name outtype, which is neither a
\* local of _forward nor a global of the module: Python raises NameError,
\* after self.hidden was assigned and before anything is returned.
forward(inp, w1, w2, ot, h0) ==
    IF ~DotDefined(inp, w1)
    THEN [raised |-> "ValueError", hidden |-> h0, outputs |-> <<>>]
    ELSE LET h == HiddenOf(inp, w1)
         IN  IF ot \in KnownOuttypes
             THEN [raised |-> "none", hidden |-> h,
                   outputs |-> OutputActivation(ot, Dot(h, w2))]
             ELSE [raised |-> "NameError", hidden |-> h, outputs |-> <<>>]

\* _compute_errors, lines 148-155
DeltaO(tg, out, ot, amount) ==
    LET d == Map2(Minus, tg, out)
        Div(x) == x \div amount
        Deriv(x, o) == FMul(x, FMul(o, Scale - o))
    IN  CASE ot = "linear" -> MapM(Div, d)
          [] ot = "logistic" -> Map2(Deriv, d, out)
          [] ot = "softmax" -> MapM(Div, d)
          [] OTHER -> d

\* _compute_errors, lines 158-159
DeltaH(h, dO, w2) ==
    LET OneMinus(x) == FMul(x, Scale - x)
    IN  Map2(FMul, MapM(OneMinus, h), Dot(dO, Transpose(w2)))

\* _update_weights, lines 174-175 and 177-178:
\* momentum * accumulator + eta * dot( transpose( below ), delta )
Accumulate(acc, e, below, delta) ==
    LET Decay(x) == FMul(momentum, x)
        Step(x) == FMul(e, x)
    IN  Map2(Plus, MapM(Decay, acc), MapM(Step, Dot(Transpose(below), delta)))

\* use, lines 192-205: one raw input vector, logistic output
UseOutput(x, w1, w2) ==
    LET inp == AddBias(<<x>>)
        hid == AddBias(MapM(Logistic, Dot(inp, w1)))
    IN  MapM(Logistic, Dot(hid, w2))

(* --------------------- early stopping, as values ---------------------- *)

\* validation errors are counted in units of 1 / ErrDen
ErrDen == 2 * Scale * Scale

\* line 67: old_val_err1, old_val_err2, new_val_err = 100002, 100001, 100000
SeedNew == 100000
SeedOld2 == 100001
\* the seeds do not descend: old_val_err1 starts where new_val_err starts
SeedOld1_flat == SeedNew
SeedOld1 == 100002

\* d / ErrDen > 0.001, for an integer d: 1000 * d > ErrDen
Improved(d) == d > ErrDen \div 1000

\* both improvements are required instead of either
ContinueCond_and(o1, o2, nw) == Improved(o1 - nw) /\ Improved(o2 - o1)

\* the loop goes on while the error does not get worse
ContinueCond_nonneg(o1, o2, nw) == o1 - nw >= 0 \/ o2 - o1 >= 0

\* line 70: the condition of the while loop
ContinueCond(o1, o2, nw) == Improved(o1 - nw) \/ Improved(o2 - o1)

\* line 78: 0.5 * ny.sum( ( validtargets - validout ) ** 2 )
ValErr(vt, vo) ==
    SumSeq([i \in 1..NRows(vo) |->
        SumSeq([j \in 1..NCols(vo) |-> (vt[i][j] - vo[i][j]) * (vt[i][j] - vo[i][j])])])

(* ------------------------------- state -------------------------------- *)

VARIABLES
    \* attributes of the MLP object
    inputs, targets, data_amount,
    weights_layer1, weights_layer2,
    update_w1, update_w2,
    hidden, outputs, eta, outtype,
    \* control: position, and the public method that is running
    pc, caller,
    \* locals of train
    iterations, n, shuffle, deltao, deltah,
    \* locals of early_stopping (args: the eta, iterations, outtype it was given)
    valid, validtargets, args,
    old_val_err1, old_val_err2, new_val_err, count,
    \* what the caller observes: the last line printed, the value returned by
    \* the last call, the exception it raised, and which call returned last
    stdout, retval, raised, returned,
    \* history: calls made, the dataset as constructed, the validation
    \* errors computed and the bursts completed by the running
    \* early_stopping, and the unconstrained draws of SpecES
    calls, orig, errs, bursts, free

attrs == <<inputs, targets, data_amount, weights_layer1, weights_layer2,
           update_w1, update_w2, hidden, outputs, eta, outtype>>
network == <<weights_layer1, weights_layer2, update_w1, update_w2>>
dataset == <<inputs, targets, data_amount>>
trainLocals == <<iterations, n, shuffle, deltao, deltah>>
esLocals == <<valid, validtargets, args, old_val_err1, old_val_err2,
              new_val_err, count>>
observed == <<stdout, retval, raised, returned>>
history == <<calls, orig, errs, bursts, free>>
vars == <<attrs, pc, caller, trainLocals, esLocals, observed, history>>

(* ------------------------------ inputs -------------------------------- *)

\* training sets given to the constructor: rows of the XOR problem of the
\* demonstration driver (lines 213-214)
TrainingSets ==
    { [inputs |-> << <<0, 0>>, <<0, Scale>>, <<Scale, 0>> >>,
       targets |-> << <<0>>, <<Scale>>, <<Scale>> >>] }

\* ny.random.rand: weights in [0, 1)
InitialWeights ==
    { [w1 |-> << <<Tenths(2), Tenths(7)>>, <<Tenths(5), Tenths(1)>>,
                 <<Tenths(9), Tenths(4)>> >>,
       w2 |-> << <<Tenths(3)>>, <<Tenths(8)>>, <<Tenths(6)>> >>] }

\* learning rate: the default 0.25 (lines 57, 82)
EtaValues == {Scale \div 4}

\* burst lengths given to train and early_stopping
IterationCounts == {1, 2}

\* validation sets given to early_stopping; the second has the wrong width
ValidationSets ==
    { [valid |-> << <<Scale, Scale>>, <<0, Scale>> >>,
       validtargets |-> << <<0>>, <<Scale>> >>],
      [valid |-> << <<Scale>> >>, validtargets |-> << <<Scale>> >>] }

\* vectors given to use
UseInputs == { <<0, 0>>, <<Scale, 0>> }

NoLine == [line |-> "none", count |-> 0, error |-> 0]

(* ---------------------------- construction ---------------------------- *)

\* __init__ (lines 24-39) and _init_weights (lines 49-54)
Init ==
    \E d \in TrainingSets, w \in InitialWeights :
        /\ inputs = AddBias(d.inputs)
        /\ targets = d.targets
        /\ data_amount = Len(d.inputs)
        /\ weights_layer1 = w.w1
        /\ weights_layer2 = w.w2
        /\ update_w1 = <<>> /\ update_w2 = <<>>
        /\ hidden = <<>> /\ outputs = <<>>
        /\ eta = 0 /\ outtype = "unset"
        /\ pc = "idle" /\ caller = "none"
        /\ iterations = 0 /\ n = 0 /\ shuffle = <<>>
        /\ deltao = <<>> /\ deltah = <<>>
        /\ valid = <<>> /\ validtargets = <<>> /\ args = <<>>
        /\ old_val_err1 = 0 /\ old_val_err2 = 0 /\ new_val_err = 0 /\ count = 0
        /\ stdout = NoLine /\ retval = <<>> /\ raised = "none"
        /\ returned = "none"
        /\ calls = 0
        /\ orig = [inputs |-> AddBias(d.inputs), targets |-> d.targets]
        /\ errs = <<>> /\ bursts = 0 /\ free = 0

(* ------------------------ frames come and go -------------------------- *)

\* the frame of train is discarded
DropTrainLocals ==
    /\ iterations' = 0 /\ n' = 0 /\ shuffle' = <<>>
    /\ deltao' = <<>> /\ deltah' = <<>>

\* the frame of early_stopping is discarded
DropEsLocals ==
    /\ valid' = <<>> /\ validtargets' = <<>> /\ args' = <<>>
    /\ old_val_err1' = 0 /\ old_val_err2' = 0 /\ new_val_err' = 0 /\ count' = 0

\* an exception leaves every frame and reaches the caller of the public method
Raise(exc) ==
    /\ raised' = exc
    /\ pc' = "idle" /\ caller' = "none"
    /\ DropTrainLocals /\ DropEsLocals
    /\ UNCHANGED <<stdout, retval, returned>>

\* a public method is entered: nothing returned or raised yet
Enter(method) ==
    /\ pc = "idle"
    /\ caller' = method
    /\ raised' = "none" /\ returned' = "none" /\ retval' = <<>>

\* train and early_stopping change the weights for good: the model follows
\* MaxCalls of them on one object
Budget ==
    /\ calls < MaxCalls
    /\ calls' = calls + 1

(* -------------------------------- train ------------------------------- *)

\* the accumulators are created once and then kept from call to call
TrainEntry_keep(e, it, ot) ==
    /\ eta' = e
    /\ outtype' = ot
    /\ shuffle' = [i \in 1..data_amount |-> i]
    /\ update_w1' = IF update_w1 = <<>>
                    THEN Zeros(NRows(weights_layer1), NCols(weights_layer1))
                    ELSE update_w1
    /\ update_w2' = IF update_w2 = <<>>
                    THEN Zeros(NRows(weights_layer2), NCols(weights_layer2))
                    ELSE update_w2
    /\ iterations' = it
    /\ n' = 0
    /\ deltao' = <<>> /\ deltah' = <<>>
    /\ pc' = "train_forward"
    /\ UNCHANGED <<dataset, weights_layer1, weights_layer2, hidden, outputs>>

\* train, lines 90-96, up to the head of the for loop
TrainEntry(e, it, ot) ==
    /\ eta' = e
    /\ outtype' = ot
    /\ shuffle' = [i \in 1..data_amount |-> i]
    /\ update_w1' = Zeros(NRows(weights_layer1), NCols(weights_layer1))
    /\ update_w2' = Zeros(NRows(weights_layer2), NCols(weights_layer2))
    /\ iterations' = it
    /\ n' = 0
    /\ deltao' = <<>> /\ deltah' = <<>>
    /\ pc' = "train_forward"
    /\ UNCHANGED <<dataset, weights_layer1, weights_layer2, hidden, outputs>>

\* my_mlp.train( eta, iterations, outtype )
train ==
    \E e \in EtaValues, it \in IterationCounts, ot \in Outtypes :
        /\ Enter("train") /\ Budget
        /\ TrainEntry(e, it, ot)
        /\ UNCHANGED <<esLocals, stdout, orig, errs, bursts, free>>

\* the forward pass is made in the first iteration only
train_forward_cached ==
    /\ pc = "train_forward"
    /\ IF n = 0
       THEN LET r == forward(inputs, weights_layer1, weights_layer2, outtype,
                             hidden)
            IN  /\ hidden' = r.hidden
                /\ IF r.raised = "none"
                   THEN /\ outputs' = r.outputs
                        /\ pc' = "train_errors"
                        /\ UNCHANGED <<caller, trainLocals, esLocals, observed>>
                   ELSE /\ outputs' = outputs
                        /\ Raise(r.raised)
       ELSE /\ pc' = "train_errors"
            /\ UNCHANGED <<hidden, outputs, caller, trainLocals, esLocals,
                           observed>>
    /\ UNCHANGED <<dataset, network, eta, outtype, history>>

\* line 100: self.outputs = self._forward( self.inputs )
train_forward ==
    /\ pc = "train_forward"
    /\ LET r == forward(inputs, weights_layer1, weights_layer2, outtype, hidden)
       IN  /\ hidden' = r.hidden
           /\ IF r.raised = "none"
              THEN /\ outputs' = r.outputs
                   /\ pc' = "train_errors"
                   /\ UNCHANGED <<caller, trainLocals, esLocals, observed>>
              ELSE /\ outputs' = outputs
                   /\ Raise(r.raised)
    /\ UNCHANGED <<dataset, network, eta, outtype, history>>

\* line 103: deltao, deltah = self._compute_errors()
train_errors ==
    /\ pc = "train_errors"
    /\ deltao' = DeltaO(targets, outputs, outtype, data_amount)
    /\ deltah' = DeltaH(hidden, deltao', weights_layer2)
    /\ pc' = "train_update"
    /\ UNCHANGED <<attrs, caller, iterations, n, shuffle, esLocals, observed,
                   history>>

\* layer 1 is updated as soon as its accumulator is computed
update_accumulators_eager ==
    /\ pc = "train_update"
    /\ update_w1' = Accumulate(update_w1, eta, inputs, DropLastCol(deltah))
    /\ weights_layer1' = Map2(Plus, weights_layer1, update_w1')
    /\ update_w2' = Accumulate(update_w2, eta, hidden, deltao)
    /\ pc' = "train_apply"
    /\ UNCHANGED <<dataset, weights_layer2, hidden, outputs,
                   eta, outtype, caller, trainLocals, esLocals, observed,
                   history>>

\* _update_weights, lines 171-178: both accumulators
update_accumulators ==
    /\ pc = "train_update"
    /\ update_w1' = Accumulate(update_w1, eta, inputs, DropLastCol(deltah))
    /\ update_w2' = Accumulate(update_w2, eta, hidden, deltao)
    /\ pc' = "train_apply"
    /\ UNCHANGED <<dataset, weights_layer1, weights_layer2, hidden, outputs,
                   eta, outtype, caller, trainLocals, esLocals, observed,
                   history>>

\* _update_weights, lines 180-181: both weight matrices
apply_updates ==
    /\ pc = "train_apply"
    /\ weights_layer1' = Map2(Plus, weights_layer1, update_w1)
    /\ weights_layer2' = Map2(Plus, weights_layer2, update_w2)
    /\ pc' = "train_shuffle"
    /\ UNCHANGED <<dataset, update_w1, update_w2, hidden, outputs, eta,
                   outtype, caller, trainLocals, esLocals, observed, history>>

\* line 108: self.inputs = self.inputs[shuffle,:]
ShuffledInputs(rows, idx) == TakeRows(rows, idx)

\* the targets stay in their old order
ShuffledTargets_unpermuted(rows, idx) == rows

\* line 109: self.targets = self.targets[shuffle,:]
ShuffledTargets(rows, idx) == TakeRows(rows, idx)

\* lines 107-109, then the next iteration or the end of train
train_shuffle ==
    /\ pc = "train_shuffle"
    /\ \E p \in Permutations(1..data_amount) :
          LET idx == [i \in 1..data_amount |-> shuffle[p[i]]]
          IN  /\ inputs' = ShuffledInputs(inputs, idx)
              /\ targets' = ShuffledTargets(targets, idx)
              /\ IF n + 1 < iterations
                 THEN /\ shuffle' = idx
                      /\ n' = n + 1
                      /\ pc' = "train_forward"
                      /\ UNCHANGED <<deltao, deltah, iterations, caller,
                                     observed, bursts>>
                 ELSE /\ DropTrainLocals
                      /\ IF caller = "train"
                         THEN /\ pc' = "idle" /\ caller' = "none"
                              /\ returned' = "train" /\ retval' = <<>>
                              /\ UNCHANGED <<stdout, raised, bursts>>
                         ELSE /\ pc' = "es_validate"
                              /\ bursts' = bursts + 1
                              /\ UNCHANGED <<caller, observed>>
    /\ UNCHANGED <<data_amount, network, hidden, outputs, eta, outtype,
                   esLocals, calls, orig, errs, free>>

(* --------------------------- early_stopping --------------------------- *)

\* early_stopping, lines 65-68
EsEntry(v, e, it, ot) ==
    /\ Enter("early_stopping") /\ Budget
    /\ valid' = AddBias(v.valid)
    /\ validtargets' = v.validtargets
    /\ args' = [eta |-> e, iterations |-> it, outtype |-> ot]
    /\ old_val_err1' = SeedOld1 * ErrDen
    /\ old_val_err2' = SeedOld2 * ErrDen
    /\ new_val_err' = SeedNew * ErrDen
    /\ count' = 0
    /\ pc' = "es_test"
    /\ errs' = <<>> /\ bursts' = 0 /\ free' = 0
    /\ UNCHANGED <<attrs, trainLocals, stdout, orig>>

\* my_mlp.early_stopping( valid, validtargets, eta, iterations, outtype )
early_stopping ==
    \E v \in ValidationSets, e \in EtaValues, it \in IterationCounts,
       ot \in Outtypes :
        EsEntry(v, e, it, ot)

\* lines 70-73: the test of the while loop, and the head of its body
es_test ==
    /\ pc = "es_test"
    /\ IF ContinueCond(old_val_err1, old_val_err2, new_val_err)
       THEN /\ count < MaxRounds
            /\ count' = count + 1
            /\ stdout' = IF count' % 10 = 0
                         THEN [line |-> "progress", count |-> count',
                               error |-> new_val_err]
                         ELSE stdout
            /\ pc' = "es_train"
       ELSE /\ pc' = "es_end"
            /\ UNCHANGED <<count, stdout>>
    /\ UNCHANGED <<attrs, caller, trainLocals, valid, validtargets, args,
                   old_val_err1, old_val_err2, new_val_err, retval, raised,
                   returned, history>>

\* line 74: self.train( eta, iterations, outtype )
es_train ==
    /\ pc = "es_train"
    /\ TrainEntry(args.eta, args.iterations, args.outtype)
    /\ UNCHANGED <<caller, esLocals, observed, history>>

\* lines 75-78: the window moves, the validation set is passed forward and
\* its error becomes the newest one
es_validate ==
    /\ pc = "es_validate"
    /\ LET r == forward(valid, weights_layer1, weights_layer2, outtype, hidden)
       IN  /\ hidden' = r.hidden
           /\ IF r.raised = "none"
              THEN /\ old_val_err2' = old_val_err1
                   /\ old_val_err1' = new_val_err
                   /\ new_val_err' = ValErr(validtargets, r.outputs)
                   /\ errs' = Append(errs, new_val_err')
                   /\ pc' = "es_test"
                   /\ UNCHANGED <<caller, trainLocals, valid, validtargets,
                                  args, count, observed>>
              ELSE /\ Raise(r.raised)
                   /\ UNCHANGED errs
    /\ UNCHANGED <<dataset, network, outputs, eta, outtype, calls, orig,
                   bursts, free>>

\* the last line reports the error of the round before the last
es_end_stale ==
    /\ pc = "es_end"
    /\ stdout' = [line |-> "end", count |-> count, error |-> old_val_err1]
    /\ retval' = <<>>
    /\ returned' = "early_stopping"
    /\ pc' = "idle" /\ caller' = "none"
    /\ DropEsLocals
    /\ UNCHANGED <<attrs, trainLocals, raised, history>>

\* line 79, and the end of the method: nothing is returned
es_end ==
    /\ pc = "es_end"
    /\ stdout' = [line |-> "end", count |-> count, error |-> new_val_err]
    /\ retval' = <<>>
    /\ returned' = "early_stopping"
    /\ pc' = "idle" /\ caller' = "none"
    /\ DropEsLocals
    /\ UNCHANGED <<attrs, trainLocals, raised, history>>

(* --------------------------------- use -------------------------------- *)

\* use goes through _forward, which records the hidden activations
use_via_forward ==
    \E x \in UseInputs :
        /\ pc = "idle"
        /\ hidden' = HiddenOf(AddBias(<<x>>), weights_layer1)
        /\ retval' = UseOutput(x, weights_layer1, weights_layer2)
        /\ returned' = "use"
        /\ raised' = "none"
        /\ UNCHANGED <<dataset, network, outputs, eta, outtype, pc, caller,
                       trainLocals, esLocals, stdout, history>>

\* my_mlp.use( x ), lines 192-207
use ==
    \E x \in UseInputs :
        /\ pc = "idle"
        /\ retval' = UseOutput(x, weights_layer1, weights_layer2)
        /\ returned' = "use"
        /\ raised' = "none"
        /\ UNCHANGED <<attrs, pc, caller, trainLocals, esLocals, stdout,
                       history>>

(* --------------------------- specification ---------------------------- *)

Next ==
    \/ train
    \/ train_forward
    \/ train_errors
    \/ update_accumulators
    \/ apply_updates
    \/ train_shuffle
    \/ early_stopping
    \/ es_test
    \/ es_train
    \/ es_validate
    \/ es_end
    \/ use

Spec == Init /\ [][Next]_vars

(* ------------- the early-stopping loop over any error sequence -------- *)
(* SpecES follows early_stopping with the burst and the validation pass    *)
(* of a round (lines 74-78) replaced by their only effect on the loop:     *)
(* the window moves and some validation error becomes the newest one.     *)
(* The errors are drawn from ErrValues.  At most MaxFree draws differ from *)
(* their predecessor by more than the threshold, so every sequence drawn   *)
(* settles: it is one a convergent validation error can produce.           *)

Threshold == ErrDen \div 1000

ErrValues ==
    {0, 1, Threshold + 1, 2 * Threshold + 1,
     SeedNew * ErrDen - Threshold, SeedNew * ErrDen}

Settled(prev, e) == prev - e <= Threshold /\ e - prev <= Threshold

\* lines 74-78, the error of the round drawn instead of computed
es_burst ==
    /\ pc = "es_train"
    /\ \E e \in ErrValues :
          /\ IF Settled(new_val_err, e)
             THEN free' = free
             ELSE free < MaxFree /\ free' = free + 1
          /\ old_val_err2' = old_val_err1
          /\ old_val_err1' = new_val_err
          /\ new_val_err' = e
          /\ errs' = Append(errs, e)
    /\ bursts' = bursts + 1
    /\ pc' = "es_test"
    /\ UNCHANGED <<attrs, caller, trainLocals, valid, validtargets, args,
                   count, observed, calls, orig>>

\* my_mlp.early_stopping( valid, validtargets ) with the default eta and
\* outtype of line 57: which arguments it gets makes no difference to SpecES
early_stopping_default ==
    \E v \in ValidationSets :
        /\ NCols(v.valid) + 1 = NRows(weights_layer1)
        /\ EsEntry(v, Scale \div 4, 1, "logistic")

NextES ==
    \/ early_stopping_default
    \/ es_test
    \/ es_burst
    \/ es_end

SpecES == Init /\ [][NextES]_vars

\* the interpreter runs the one thread of control until the method returns
SpecESLive == Init /\ [][NextES]_vars /\ WF_vars(NextES)

(* ------------------------------ properties --------------------------- *)

\* the validation error of round k of the running early_stopping; the
\* rounds before round 1 have the seeds of line 67
E(k) ==
    IF k >= 1 THEN errs[k]
    ELSE IF k = 0 THEN SeedNew * ErrDen
    ELSE IF k = -1 THEN SeedOld1 * ErrDen
    ELSE SeedOld2 * ErrDen

\* the improvement d, in units of 1 / ErrDen, is at most 0.001
AtMostThousandth(d) == d <= Threshold

\* both the improvement into round k and the one before it are small
BothSmall(k) ==
    /\ AtMostThousandth(E(k - 1) - E(k))
    /\ AtMostThousandth(E(k - 2) - E(k - 1))

Last(s) == s[Len(s)]

\* C1: after k rounds the window holds the errors of rounds k, k-1 and
\* k-2; early_stopping leaves its loop after round k exactly when the
\* improvements into round k and into round k-1 are both at most 0.001,
\* and it had not been so after any earlier round.
C1_StopsIffBothSmall ==
    LET k == Len(errs)
    IN  /\ pc \in {"es_test", "es_train", "es_end"} =>
              /\ new_val_err = E(k)
              /\ old_val_err1 = E(k - 1)
              /\ old_val_err2 = E(k - 2)
        /\ pc = "es_end" =>
              /\ BothSmall(k)
              /\ \A j \in 0..(k - 1) : ~BothSmall(j)
        /\ pc = "es_train" => \A j \in 0..k : ~BothSmall(j)

\* the loop went on after round 3 although the improvement into round 3
\* was small (the one into round 2 was not), and on after round 2 although
\* the improvement into round 1 was small, and then it stopped
C1_Witness ==
    /\ pc = "es_end"
    /\ Len(errs) >= 4
    /\ AtMostThousandth(E(2) - E(3)) /\ ~AtMostThousandth(E(1) - E(2))
    /\ AtMostThousandth(E(0) - E(1))

\* C2: for a validation error that settles (from some round on every
\* error is within 0.001 of the one before), early_stopping, once in its
\* loop, reaches the end of the loop.
C2_Terminates == (pc = "es_test") ~> (pc = "es_end")

\* the loop has ended on a strictly decreasing sequence of errors
C2_Witness ==
    /\ pc = "es_end"
    /\ Len(errs) >= 4
    /\ \A j \in 1..(Len(errs) - 1) : errs[j] > errs[j + 1]

\* the step eta * dot( transpose( below ), delta ) of _update_weights
EtaGradient(below, delta) ==
    LET Step(x) == FMul(eta, x)
    IN  MapM(Step, Dot(Transpose(below), delta))

\* C3: in the first iteration of every train call, also of every burst of
\* early_stopping, the accumulators are zero before the weight update and
\* are eta times the gradient term, with no momentum part, when the
\* weights are updated with them.
C3_FirstUpdateWithoutMomentum ==
    /\ pc \in {"train_forward", "train_errors", "train_update"} /\ n = 0 =>
          /\ update_w1 = Zeros(NRows(weights_layer1), NCols(weights_layer1))
          /\ update_w2 = Zeros(NRows(weights_layer2), NCols(weights_layer2))
    /\ pc = "train_apply" /\ n = 0 =>
          /\ update_w1 = EtaGradient(inputs, DropLastCol(deltah))
          /\ update_w2 = EtaGradient(hidden, deltao)

\* the first update of a burst that follows a completed burst, which left
\* accumulators that are not zero (they are still not zero now)
C3_Witness ==
    /\ pc = "train_apply" /\ n = 0
    /\ bursts >= 1
    /\ update_w1 # Zeros(NRows(weights_layer1), NCols(weights_layer1))
    /\ update_w2 # Zeros(NRows(weights_layer2), NCols(weights_layer2))

\* how many rows of the dataset are the pair <<input row, target row>>
Pairing(inp, tg) ==
    [pr \in {<<inp[i], tg[i]>> : i \in 1..Len(inp)} |->
        Cardinality({i \in 1..Len(inp) : <<inp[i], tg[i]>> = pr})]

\* C4: the stored dataset always has data_amount rows and holds exactly
\* the (bias-augmented input, target) pairs it had at construction.
C4_PairsPreserved ==
    /\ Len(inputs) = data_amount
    /\ Len(targets) = data_amount
    /\ Len(orig.inputs) = data_amount
    /\ Pairing(inputs, targets) = Pairing(orig.inputs, orig.targets)

\* a call has returned with the rows in another order than at construction
C4_Witness ==
    /\ returned \in {"train", "early_stopping"}
    /\ inputs # orig.inputs
    /\ targets # orig.targets

\* what a step in which use returns does
UseStep ==
    returned' = "use" =>
        /\ UNCHANGED <<weights_layer1, weights_layer2, update_w1, update_w2,
                       inputs, targets, data_amount, hidden, outtype>>
        /\ \E x \in UseInputs :
              retval' = forward(AddBias(<<x>>), weights_layer1,
                                weights_layer2, "logistic", hidden).outputs

\* C5: a step in which use returns leaves the weights, the accumulators,
\* the dataset, the recorded hidden activations and outtype as they were,
\* and what it returns is the logistic output of a forward pass.
C5_UseReadOnly == [][UseStep]_vars

\* use has returned on a network that was trained with the linear outtype
C5_Witness ==
    /\ returned = "use"
    /\ calls >= 1
    /\ outtype = "linear"
    /\ hidden # <<>>

\* what a forward pass with an outtype that is not recognised does
UnknownOuttypeStep ==
    pc \in {"train_forward", "es_validate"} /\ outtype \notin KnownOuttypes =>
        /\ raised' = "NameError"
        /\ pc' = "idle" /\ caller' = "none"
        /\ UNCHANGED <<weights_layer1, weights_layer2, outputs>>

FailingStep == raised' # "none" => UNCHANGED network

\* the weights change only by the addition of the two accumulators
WeightStep ==
    weights_layer1' # weights_layer1 \/ weights_layer2' # weights_layer2 =>
        /\ pc = "train_apply"
        /\ UNCHANGED <<update_w1, update_w2>>
        /\ weights_layer1' = Map2(Plus, weights_layer1, update_w1)
        /\ weights_layer2' = Map2(Plus, weights_layer2, update_w2)

\* C7: a step in which a pass fails leaves both weight matrices and both
\* accumulators as they were; the weights change only in the step that
\* adds the two accumulators, both already computed, to them.
C7_NoPartialUpdate == [][FailingStep /\ WeightStep]_vars

\* the validation pass failed after a burst that had updated the weights
C7_Witness ==
    /\ raised = "ValueError"
    /\ bursts >= 1
    /\ update_w2 # Zeros(NRows(weights_layer2), NCols(weights_layer2))

\* C8, as claimed: early_stopping returns (round_count, final error)
C8_ReturnsPair ==
    returned = "early_stopping" => retval = <<bursts, Last(errs)>>

\* C8, amended: early_stopping returns nothing; the last line it prints
\* holds the number of bursts run and the validation error computed
\* after the last burst.
C8_PrintsFinalState ==
    returned = "early_stopping" =>
        /\ retval = <<>>
        /\ errs # <<>>
        /\ stdout = [line |-> "end", count |-> bursts, error |-> Last(errs)]

\* early_stopping has returned after at least three bursts whose last two
\* validation errors differ
C8_Witness ==
    /\ returned = "early_stopping"
    /\ bursts >= 3
    /\ errs[Len(errs)] # errs[Len(errs) - 1]

\* C9: whenever the error pass or the weight update runs, the recorded
\* hidden activations and outputs are those of a forward pass over the
\* stored inputs in their present order with the present weights.
C9_ForwardIsCurrent ==
    pc \in {"train_errors", "train_update", "train_apply"} =>
        /\ hidden = HiddenOf(inputs, weights_layer1)
        /\ outputs = OutputActivation(outtype, Dot(hidden, weights_layer2))

\* a weight update in the second iteration of a burst that follows a
\* validation pass, with the rows in another order than at construction
C9_Witness ==
    /\ pc = "train_update"
    /\ n = 1
    /\ bursts >= 1
    /\ inputs # orig.inputs

\* C10: early_stopping never leaves its loop before two bursts have run.
C10_AtLeastTwoBursts ==
    pc = "es_end" => count >= 2 /\ bursts >= 2

\* the loop ended after exactly two bursts, on errors that never improved
C10_Witness ==
    /\ pc = "es_end"
    /\ count = 2
    /\ \A j \in 1..Len(errs) : errs[j] >= SeedNew * ErrDen

====
